---- MODULE Spec2Model ----
(***************************************************************************)
(* A model of the structured error model of event_viz                     *)
(* (src-tauri/src/error.rs): the error value AppError with its keyword    *)
(* classification, context map and message sanitization, and the          *)
(* ErrorMetrics aggregator with its ErrorStats snapshots.                  *)
(*                                                                         *)
(* A Rust String is modelled as a sequence of one-character strings, so   *)
(* that find, contains, to_lowercase and replace_range are computed       *)
(* character by character.  Option<T> is a sequence of length 0 or 1, a   *)
(* HashMap is a function whose domain is the set of keys present.         *)
(***************************************************************************)
EXTENDS Integers, Sequences, FiniteSets, TLC

VARIABLES
    input,      \* the &str handed to from_message
    err,        \* Option<AppError>: the error value under construction / in use
    built,      \* the value as its constructor returned it, and the name of
                \* that constructor; empty before construction
    ctxlog,     \* the (key, value) arguments of the with_context calls so far
    clock,      \* std::time::SystemTime::now()
    sanitized,  \* Option<String>: what sanitized_message() last returned
    resanitized,\* Option<String>: what sanitized_message() returned for the
                \* error value built from that string
    suggestions,\* Option<Vec<String>>: what recovery_suggestions() last returned
    metrics,    \* the ErrorMetrics instance
    heap,       \* the HashMaps the aggregator and its snapshots point to
    recorded,   \* the (category, severity) of each completed record_error
    snapshots,  \* the ErrorStats returned so far
    taken,      \* for each of them, the aggregator's counters when
                \* get_stats was called
    pc,         \* per caller of the shared aggregator: where it stands
    lock,       \* Option<caller>: who holds the borrow of the shared aggregator
    arg,        \* per caller: the error it is recording
    tmp,        \* per caller: the value it has loaded and not yet stored
    partial     \* per caller: the ErrorStats it is building in get_stats

vars == <<input, err, built, ctxlog, clock, sanitized, resanitized, suggestions,
          metrics, heap, recorded, snapshots, taken, pc, lock, arg, tmp, partial>>

-----------------------------------------------------------------------------
(* Bounds of the model *)

\* the sanitization inputs are concatenations of at most this many pieces
MaxSanPieces == 4
\* the classification inputs are concatenations of at most this many pieces
MaxClassPieces == 2

\* SystemTime::now() runs from 0 to MaxClock
MaxClock == 1

\* with_context calls on one error value
MaxContextCalls == 3

\* record_error calls on the aggregator of one owner
MaxRecords == 4

\* get_stats calls on the aggregator of one owner
MaxSnapshots == 2

\* concurrent callers of the shared aggregator
NumCallers == 2

\* calls (record_error and get_stats) on the shared aggregator
MaxSharedCalls == 3

-----------------------------------------------------------------------------
(* Strings *)

UpperCase == <<"A", "B", "C", "D", "E", "F", "G", "H", "I", "J", "K", "L", "M", "N", "O", "P", "Q", "R", "S", "T", "U", "V", "W", "X", "Y", "Z">>

LowerCase == <<"a", "b", "c", "d", "e", "f", "g", "h", "i", "j", "k", "l", "m", "n", "o", "p", "q", "r", "s", "t", "u", "v", "w", "x", "y", "z">>

Stars == <<"*", "*", "*">>

password_eq == <<"p", "a", "s", "s", "w", "o", "r", "d", "=">>

api_key_eq == <<"a", "p", "i", "_", "k", "e", "y", "=">>

secret_eq == <<"s", "e", "c", "r", "e", "t", "=">>

token_eq == <<"t", "o", "k", "e", "n", "=">>

PatPassword == <<"p", "a", "s", "s", "w", "o", "r", "d">>

PatApiKey == <<"a", "p", "i", "_", "k", "e", "y">>

PatSecret == <<"s", "e", "c", "r", "e", "t">>

KwNetwork == <<"n", "e", "t", "w", "o", "r", "k">>

KwConnection == <<"c", "o", "n", "n", "e", "c", "t", "i", "o", "n">>

KwTimeout == <<"t", "i", "m", "e", "o", "u", "t">>

KwInvalid == <<"i", "n", "v", "a", "l", "i", "d">>

KwValidation == <<"v", "a", "l", "i", "d", "a", "t", "i", "o", "n">>

KwRequired == <<"r", "e", "q", "u", "i", "r", "e", "d">>

KwFile == <<"f", "i", "l", "e">>

KwNotFound == <<"n", "o", "t", " ", "f", "o", "u", "n", "d">>

KwDatabase == <<"d", "a", "t", "a", "b", "a", "s", "e">>

KwCrash == <<"c", "r", "a", "s", "h">>

KwCritical == <<"c", "r", "i", "t", "i", "c", "a", "l">>

KwDeprecated == <<"d", "e", "p", "r", "e", "c", "a", "t", "e", "d">>

KwWarning == <<"w", "a", "r", "n", "i", "n", "g">>

KwCompleted == <<"c", "o", "m", "p", "l", "e", "t", "e", "d">>

KwMinor == <<"m", "i", "n", "o", "r">>

\* the messages of the repository's tests and of the documented scenarios
\* "Database connection failed: password=secret123"
MsgDbConn ==
    <<"D", "a", "t", "a", "b", "a", "s", "e", " ", "c", "o", "n", "n", "e", "c", "t", "i", "o", "n", " ", "f", "a", "i", "l", "e", "d", ":", " ", "p", "a", "s", "s", "w", "o", "r", "d", "=", "s", "e", "c", "r", "e", "t", "1", "2", "3">>

\* "Database connection failed: password=***"
MsgDbConnSan ==
    <<"D", "a", "t", "a", "b", "a", "s", "e", " ", "c", "o", "n", "n", "e", "c", "t", "i", "o", "n", " ", "f", "a", "i", "l", "e", "d", ":", " ", "p", "a", "s", "s", "w", "o", "r", "d", "=", "*", "*", "*">>

\* "Database error: password=secret123"
MsgDbErr ==
    <<"D", "a", "t", "a", "b", "a", "s", "e", " ", "e", "r", "r", "o", "r", ":", " ", "p", "a", "s", "s", "w", "o", "r", "d", "=", "s", "e", "c", "r", "e", "t", "1", "2", "3">>

\* "Database error: password=***"
MsgDbErrSan ==
    <<"D", "a", "t", "a", "b", "a", "s", "e", " ", "e", "r", "r", "o", "r", ":", " ", "p", "a", "s", "s", "w", "o", "r", "d", "=", "*", "*", "*">>

\* "API failed: api_key=xyz789"
MsgApi ==
    <<"A", "P", "I", " ", "f", "a", "i", "l", "e", "d", ":", " ", "a", "p", "i", "_", "k", "e", "y", "=", "x", "y", "z", "7", "8", "9">>

\* "API failed: api_key=***"
MsgApiSan ==
    <<"A", "P", "I", " ", "f", "a", "i", "l", "e", "d", ":", " ", "a", "p", "i", "_", "k", "e", "y", "=", "*", "*", "*">>

\* "Token invalid: token=abc456"
MsgToken ==
    <<"T", "o", "k", "e", "n", " ", "i", "n", "v", "a", "l", "i", "d", ":", " ", "t", "o", "k", "e", "n", "=", "a", "b", "c", "4", "5", "6">>

\* "Token invalid: token=***"
MsgTokenSan ==
    <<"T", "o", "k", "e", "n", " ", "i", "n", "v", "a", "l", "i", "d", ":", " ", "t", "o", "k", "e", "n", "=", "*", "*", "*">>

\* "Network connection failed"
MsgNetConn ==
    <<"N", "e", "t", "w", "o", "r", "k", " ", "c", "o", "n", "n", "e", "c", "t", "i", "o", "n", " ", "f", "a", "i", "l", "e", "d">>

\* "Invalid input format"
MsgInvalid ==
    <<"I", "n", "v", "a", "l", "i", "d", " ", "i", "n", "p", "u", "t", " ", "f", "o", "r", "m", "a", "t">>

\* "File not found"
MsgFileNotFound ==
    <<"F", "i", "l", "e", " ", "n", "o", "t", " ", "f", "o", "u", "n", "d">>

\* "System crash imminent"
MsgCrash ==
    <<"S", "y", "s", "t", "e", "m", " ", "c", "r", "a", "s", "h", " ", "i", "m", "m", "i", "n", "e", "n", "t">>

\* "Deprecated API warning"
MsgDeprecated ==
    <<"D", "e", "p", "r", "e", "c", "a", "t", "e", "d", " ", "A", "P", "I", " ", "w", "a", "r", "n", "i", "n", "g">>

\* "Operation completed with minor issues"
MsgMinor ==
    <<"O", "p", "e", "r", "a", "t", "i", "o", "n", " ", "c", "o", "m", "p", "l", "e", "t", "e", "d", " ", "w", "i", "t", "h", " ", "m", "i", "n", "o", "r", " ", "i", "s", "s", "u", "e", "s">>

\* "Test error"
MsgTest ==
    <<"T", "e", "s", "t", " ", "e", "r", "r", "o", "r">>

-----------------------------------------------------------------------------
(* str and String operations of the standard library, as the code uses them *)

\* Option<usize>::None of the find family
NotFound == 0 - 1

\* pat occurs in s at the 0-based offset i
MatchesAt(s, pat, i) ==
    /\ i + Len(pat) <= Len(s)
    /\ \A j \in 1..Len(pat) : s[i + j] = pat[j]

RECURSIVE FindFrom(_, _, _)
FindFrom(s, pat, i) ==
    IF i + Len(pat) > Len(s) THEN NotFound
    ELSE IF MatchesAt(s, pat, i) THEN i
    ELSE FindFrom(s, pat, i + 1)

\* str::find(&str): the 0-based offset of the first occurrence
find(s, pat) == FindFrom(s, pat, 0)

\* str::contains(&str)
contains(s, pat) == find(s, pat) # NotFound

\* char::is_whitespace, on the characters of the model
is_whitespace(c) == c \in {" ", "\t", "\n", "\r"}

\* replace_range(start..end, with), 0-based, end exclusive
replace_range(s, start, end, with) ==
    SubSeq(s, 1, start) \o with \o SubSeq(s, end + 1, Len(s))

\* the lower-case letter of each upper-case letter
LowerOfUpper ==
    [c \in {UpperCase[i] : i \in 1..Len(UpperCase)} |->
        LowerCase[CHOOSE i \in 1..Len(UpperCase) : UpperCase[i] = c]]

to_lowercase_char(c) == IF c \in DOMAIN LowerOfUpper THEN LowerOfUpper[c] ELSE c

\* str::to_lowercase
to_lowercase(s) == [i \in 1..Len(s) |-> to_lowercase_char(s[i])]

-----------------------------------------------------------------------------
(* AppError *)

ErrorCategory ==
    {"Network", "Validation", "FileSystem", "Database",
     "System", "Cache", "Processing", "Unknown"}

ErrorSeverity == {"Debug", "Info", "Warning", "Error", "Critical"}

\* HashMap::new()
EmptyMap == [k \in {} |-> 0]

\* AppError::new; now is SystemTime::now()
new(message, category, severity, now) ==
    [message   |-> message,
     category  |-> category,
     severity  |-> severity,
     context   |-> EmptyMap,
     timestamp |-> now]

\* categorize_message with the Database check moved to the front
categorize_message_database_first(message) ==
    LET lower == to_lowercase(message) IN
    IF contains(lower, KwDatabase)
    THEN "Database"
    ELSE IF contains(lower, KwNetwork) \/ contains(lower, KwConnection)
          \/ contains(lower, KwTimeout)
    THEN "Network"
    ELSE IF contains(lower, KwInvalid) \/ contains(lower, KwValidation)
          \/ contains(lower, KwRequired)
    THEN "Validation"
    ELSE IF contains(lower, KwFile) \/ contains(lower, KwNotFound)
    THEN "FileSystem"
    ELSE "Unknown"

categorize_message(message) ==
    LET lower == to_lowercase(message) IN
    IF contains(lower, KwNetwork) \/ contains(lower, KwConnection)
          \/ contains(lower, KwTimeout)
    THEN "Network"
    ELSE IF contains(lower, KwInvalid) \/ contains(lower, KwValidation)
          \/ contains(lower, KwRequired)
    THEN "Validation"
    ELSE IF contains(lower, KwFile) \/ contains(lower, KwNotFound)
    THEN "FileSystem"
    ELSE IF contains(lower, KwDatabase)
    THEN "Database"
    ELSE "Unknown"

\* assess_severity without the to_lowercase
assess_severity_case_sensitive(message) ==
    IF contains(message, KwCrash) \/ contains(message, KwCritical)
    THEN "Critical"
    ELSE IF contains(message, KwDeprecated) \/ contains(message, KwWarning)
    THEN "Warning"
    ELSE IF contains(message, KwCompleted) \/ contains(message, KwMinor)
    THEN "Info"
    ELSE "Error"

assess_severity(message) ==
    LET lower == to_lowercase(message) IN
    IF contains(lower, KwCrash) \/ contains(lower, KwCritical)
    THEN "Critical"
    ELSE IF contains(lower, KwDeprecated) \/ contains(lower, KwWarning)
    THEN "Warning"
    ELSE IF contains(lower, KwCompleted) \/ contains(lower, KwMinor)
    THEN "Info"
    ELSE "Error"

from_message(message, now) ==
    new(message, categorize_message(message), assess_severity(message), now)

\* HashMap::insert
insert(map, key, value) ==
    [k \in DOMAIN map \cup {key} |-> IF k = key THEN value ELSE map[k]]

\* with_context that keeps the value a key already has
with_context_keep_first(e, key, value) ==
    [e EXCEPT !.context =
        IF key \in DOMAIN e.context THEN e.context ELSE insert(e.context, key, value)]

with_context(e, key, value) ==
    [e EXCEPT !.context = insert(e.context, key, value)]

\* recovery_suggestions that returns the first hint only for Validation
recovery_suggestions_short(e) ==
    IF e.category = "Network"
    THEN <<"Retry the operation", "Check network connectivity">>
    ELSE IF e.category = "Validation"
    THEN <<"Validate input format">>
    ELSE <<>>

\* the match on self.category
recovery_suggestions(e) ==
    IF e.category = "Network"
    THEN <<"Retry the operation", "Check network connectivity">>
    ELSE IF e.category = "Validation"
    THEN <<"Validate input format", "Check field requirements">>
    ELSE <<>>

\* the pattern closure of the first replace: |c| c == '=' || c == ':'
IsSeparator(c) == c = "=" \/ c = ":"

\* the replacement closure of the first replace, applied to the matched text
Replacer(s) ==
    IF contains(s, PatPassword) \/ contains(s, PatApiKey) \/ contains(s, PatSecret)
    THEN Stars
    ELSE s

\* sanitized.replace(pattern, replacement): every match of the pattern (one
\* character, '=' or ':') is replaced by the replacement closure's result
\* for it; the text between the matches is kept.  (The second argument is a
\* closure where str::replace declares a &str; it is read as a replacer
\* applied to each match, the reading under which the expected strings of
\* tests.rs:53-55 come out.)
RECURSIVE replace_matches(_)
replace_matches(s) ==
    IF s = <<>> THEN <<>>
    ELSE (IF IsSeparator(Head(s)) THEN Replacer(<<Head(s)>>) ELSE <<Head(s)>>)
         \o replace_matches(Tail(s))

\* vec!["password=", "api_key=", "secret=", "token="]
patterns == <<password_eq, api_key_eq, secret_eq, token_eq>>

\* the closure without the semicolon
IsValueEndNoSemicolon(c) == is_whitespace(c) \/ c = ","

\* the closure |c| c.is_whitespace() || c == ',' || c == ';'
IsValueEnd(c) == is_whitespace(c) \/ c = "," \/ c = ";"

\* str::find(closure): the 0-based offset of the first character that ends
\* a value
RECURSIVE FindValueEndFrom(_, _)
FindValueEndFrom(s, i) ==
    IF i >= Len(s) THEN NotFound
    ELSE IF IsValueEnd(s[i + 1]) THEN i
    ELSE FindValueEndFrom(s, i + 1)

find_value_end(s) == FindValueEndFrom(s, 0)

\* str::rfind(&str): the 0-based offset of the last occurrence
RECURSIVE RFindFrom(_, _, _)
RFindFrom(s, pat, i) ==
    IF i < 0 THEN NotFound
    ELSE IF MatchesAt(s, pat, i) THEN i
    ELSE RFindFrom(s, pat, i - 1)

\* the loop body with rfind in place of find: the last occurrence is redacted
redact_last(s, pattern) ==
    LET idx == RFindFrom(s, pattern, Len(s) - Len(pattern)) IN
    IF idx = NotFound THEN s
    ELSE LET start   == idx + Len(pattern)
             end_idx == find_value_end(SubSeq(s, start + 1, Len(s)))
         IN  IF end_idx # NotFound
             THEN replace_range(s, start, start + end_idx, Stars)
             ELSE replace_range(s, start, Len(s), Stars)

\* the body of the for loop of sanitized_message, for one pattern
redact(s, pattern) ==
    LET idx == find(s, pattern) IN
    IF idx = NotFound THEN s
    ELSE LET start   == idx + Len(pattern)
             end_idx == find_value_end(SubSeq(s, start + 1, Len(s)))
         IN  IF end_idx # NotFound
             THEN replace_range(s, start, start + end_idx, Stars)
             ELSE replace_range(s, start, Len(s), Stars)

\* the for loop of sanitized_message from the k-th pattern on
RECURSIVE redact_from(_, _)
redact_from(s, k) ==
    IF k > Len(patterns) THEN s
    ELSE redact_from(redact(s, patterns[k]), k + 1)

sanitized_message(e) == redact_from(replace_matches(e.message), 1)

-----------------------------------------------------------------------------
(* The inputs of the model *)

\* all concatenations of at most n of the pieces
RECURSIVE Concats(_, _)
Concats(pieces, n) ==
    IF n = 0 THEN {<<>>}
    ELSE LET shorter == Concats(pieces, n - 1)
         IN  shorter \cup {p \o q : p \in shorter, q \in pieces}

SanPieces ==
    {password_eq, api_key_eq, secret_eq, token_eq,
     <<"x">>, <<" ">>, <<",">>, <<";">>}

SanMessages == Concats(SanPieces, MaxSanPieces)

ClassPieces ==
    {KwNetwork, KwConnection, KwTimeout, KwInvalid, KwValidation, KwRequired,
     KwFile, KwNotFound, KwDatabase, KwCrash, KwCritical, KwDeprecated,
     KwWarning, KwCompleted, KwMinor, <<" ">>, <<"x">>}

to_uppercase_char(c) ==
    IF \E i \in 1..Len(LowerCase) : LowerCase[i] = c
    THEN UpperCase[CHOOSE i \in 1..Len(LowerCase) : LowerCase[i] = c]
    ELSE c

\* a message in lower case, in upper case, and with every second letter in
\* upper case
Cased(s, mode) ==
    [i \in 1..Len(s) |->
        IF mode = "upper" \/ (mode = "mixed" /\ i % 2 = 1)
        THEN to_uppercase_char(s[i])
        ELSE s[i]]

ClassMessages ==
    {Cased(s, mode) : s \in Concats(ClassPieces, MaxClassPieces),
                      mode \in {"lower", "upper", "mixed"}}

TestMessages ==
    {MsgDbConn, MsgDbErr, MsgApi, MsgToken, MsgNetConn, MsgInvalid,
     MsgFileNotFound, MsgCrash, MsgDeprecated, MsgMinor, MsgTest}

Messages == SanMessages \cup ClassMessages \cup TestMessages

-----------------------------------------------------------------------------
(* ErrorMetrics and ErrorStats.  The two HashMaps of an ErrorMetrics and of   *)
(* an ErrorStats live on the heap: the struct holds their addresses, and      *)
(* heap[a] is the content of the map at address a.                            *)

\* the addresses of the maps ErrorMetrics::new() allocates
CategoryMapAddr == 1

SeverityMapAddr == 2

\* ErrorMetrics::new()
ErrorMetrics_new ==
    [total_errors       |-> 0,
     errors_by_category |-> CategoryMapAddr,
     errors_by_severity |-> SeverityMapAddr]

\* the heap after ErrorMetrics::new()
HeapInit == <<EmptyMap, EmptyMap>>

\* total_errors += 1, and the += 1 of an entry
Increment(n) == n + 1

\* insert(key, 0) in place of or_insert(0): a count already there is lost
or_insert_always(map, key) == insert(map, key, 0)

\* entry(key).or_insert(0): the map with the key present
or_insert(map, key) == IF key \in DOMAIN map THEN map ELSE insert(map, key, 0)

\* *map.entry(key).or_insert(0) += 1
entry_increment(map, key) ==
    LET present == or_insert(map, key)
    IN  [present EXCEPT ![key] = Increment(@)]

\* no clone: the snapshot points to the aggregator's own map
CloneAddrShared(h, a) == a

\* HashMap::clone(): a new map with the same content at a fresh address;
\* CloneAddr is the address of the clone, CloneHeap the heap holding it
CloneAddr(h, a) == Len(h) + 1

CloneHeap(h, a) == Append(h, h[a])

\* record_error, whole
record_error_metrics(m, e) == [m EXCEPT !.total_errors = Increment(@)]

record_error_heap(m, h, e) ==
    [h EXCEPT ![m.errors_by_category] = entry_increment(@, e.category),
              ![m.errors_by_severity] = entry_increment(@, e.severity)]

\* get_stats, whole: the ErrorStats returned and the heap afterwards
get_stats_value(m, h) ==
    [total_errors       |-> m.total_errors,
     errors_by_category |-> CloneAddr(h, m.errors_by_category),
     errors_by_severity |->
         CloneAddr(CloneHeap(h, m.errors_by_category), m.errors_by_severity)]

\* get_stats that hands its maps over and starts afresh (mem::take in place
\* of clone)
get_stats_heap_take(m, h) ==
    [CloneHeap(CloneHeap(h, m.errors_by_category), m.errors_by_severity)
        EXCEPT ![m.errors_by_category] = EmptyMap,
               ![m.errors_by_severity] = EmptyMap]

get_stats_heap(m, h) ==
    CloneHeap(CloneHeap(h, m.errors_by_category), m.errors_by_severity)

\* what a holder of an ErrorMetrics or ErrorStats reads through it
Counters(s, h) ==
    [total_errors       |-> s.total_errors,
     errors_by_category |-> h[s.errors_by_category],
     errors_by_severity |-> h[s.errors_by_severity]]

-----------------------------------------------------------------------------
(* The error value: construction, with_context, sanitized_message *)

\* from_io_error that classifies the text as from_message does
from_io_error_inferred(text, now) == from_message(text, now)

\* AppError::from_io_error; text is err.to_string()
from_io_error(text, now) == new(text, "FileSystem", "Error", now)

\* the texts of the I/O errors from_io_error is tried with
IoErrorTexts == {MsgFileNotFound, MsgDbConn, MsgCrash}

ContextKeys == {"user_id", "operation"}

ContextValues == {"12345", "test_operation"}

Callers == 1..NumCallers

\* the errors the aggregator is fed: (category, severity)
ErrorKinds ==
    {<<"Network", "Error">>, <<"Network", "Warning">>, <<"Validation", "Error">>,
     <<"Database", "Critical">>, <<"Unknown", "Info">>}

SharedErrorKinds == {<<"Network", "Error">>, <<"Validation", "Warning">>}

ValueVars ==
    <<input, err, built, ctxlog, clock, sanitized, resanitized, suggestions>>

MetricsVars == <<metrics, heap, recorded, snapshots, taken>>

SharedVars == <<pc, lock, arg, tmp, partial>>

InitRest ==
    /\ err = <<>>
    /\ built = <<>>
    /\ ctxlog = <<>>
    /\ clock = 0
    /\ sanitized = <<>>
    /\ resanitized = <<>>
    /\ suggestions = <<>>
    /\ metrics = ErrorMetrics_new
    /\ heap = HeapInit
    /\ recorded = <<>>
    /\ snapshots = <<>>
    /\ taken = <<>>
    /\ pc = [t \in Callers |-> "idle"]
    /\ lock = <<>>
    /\ arg = [t \in Callers |-> <<>>]
    /\ tmp = [t \in Callers |-> 0]
    /\ partial = [t \in Callers |-> <<>>]

Init ==
    /\ input = <<>>
    /\ InitRest

Construct(m, e, by) ==
    /\ err = <<>>
    /\ input' = m
    /\ err' = <<e>>
    /\ built' = <<e, by>>
    /\ UNCHANGED <<ctxlog, clock, sanitized, resanitized, suggestions, MetricsVars, SharedVars>>

New(m, c, s) == Construct(m, new(m, c, s, clock), "new")

FromMessage(m) == Construct(m, from_message(m, clock), "from_message")

FromIoError(m) == Construct(m, from_io_error(m, clock), "from_io_error")

WithContext(k, v) ==
    /\ err # <<>>
    /\ Len(ctxlog) < MaxContextCalls
    /\ err' = <<with_context(err[1], k, v)>>
    /\ ctxlog' = Append(ctxlog, <<k, v>>)
    /\ UNCHANGED <<input, built, clock, sanitized, resanitized, suggestions, MetricsVars, SharedVars>>

SanitizedMessage ==
    /\ err # <<>>
    /\ sanitized = <<>>
    /\ sanitized' = <<sanitized_message(err[1])>>
    /\ UNCHANGED <<input, err, built, ctxlog, clock, resanitized, suggestions,
                   MetricsVars, SharedVars>>

RecoverySuggestions ==
    /\ err # <<>>
    /\ suggestions = <<>>
    /\ suggestions' = <<recovery_suggestions(err[1])>>
    /\ UNCHANGED <<input, err, built, ctxlog, clock, sanitized, resanitized,
                   MetricsVars, SharedVars>>

\* time passes
Tick ==
    /\ clock < MaxClock
    /\ clock' = clock + 1
    /\ UNCHANGED <<input, err, built, ctxlog, sanitized, resanitized, suggestions, MetricsVars, SharedVars>>

Next ==
    \/ \E c \in ErrorCategory, s \in ErrorSeverity : New(MsgTest, c, s)
    \/ \E m \in TestMessages : FromMessage(m)
    \/ \E m \in IoErrorTexts : FromIoError(m)
    \/ \E k \in ContextKeys, v \in ContextValues : WithContext(k, v)
    \/ SanitizedMessage
    \/ RecoverySuggestions
    \/ Tick

\* one error value: construction, then with_context and sanitized_message
Spec == Init /\ [][Next]_vars

-----------------------------------------------------------------------------
(* from_message and sanitized_message as functions of the message *)

InitInfer ==
    /\ input \in Messages
    /\ InitRest

\* an error value built from the sanitized string, sanitized again
Resanitize ==
    /\ sanitized # <<>>
    /\ resanitized = <<>>
    /\ resanitized' = <<sanitized_message(from_message(sanitized[1], clock))>>
    /\ UNCHANGED <<input, err, built, ctxlog, clock, sanitized, suggestions,
                   MetricsVars, SharedVars>>

NextInfer ==
    \/ FromMessage(input)
    \/ SanitizedMessage
    \/ Resanitize

SpecInfer == InitInfer /\ [][NextInfer]_vars

-----------------------------------------------------------------------------
(* The aggregator with one owner: record_error and get_stats, each whole *)

RecordError(c, s) ==
    /\ Len(recorded) < MaxRecords
    /\ LET e == new(MsgTest, c, s, clock)
       IN  /\ metrics' = record_error_metrics(metrics, e)
           /\ heap' = record_error_heap(metrics, heap, e)
    /\ recorded' = Append(recorded, <<c, s>>)
    /\ UNCHANGED <<ValueVars, snapshots, taken, SharedVars>>

GetStats ==
    /\ Len(snapshots) < MaxSnapshots
    /\ snapshots' = Append(snapshots, get_stats_value(metrics, heap))
    /\ heap' = get_stats_heap(metrics, heap)
    /\ taken' = Append(taken, Counters(metrics, heap))
    /\ UNCHANGED <<ValueVars, metrics, recorded, SharedVars>>

NextMetrics ==
    \/ \E k \in ErrorKinds : RecordError(k[1], k[2])
    \/ GetStats

SpecMetrics == Init /\ [][NextMetrics]_vars

-----------------------------------------------------------------------------
(* The aggregator shared by concurrent callers.  record_error takes &mut self *)
(* and get_stats takes &self, so a caller runs either only while it holds the *)
(* borrow of the instance (the mutual exclusion of the sharing callers); the  *)
(* statements of both are separate steps, and each += 1 is a load and a store *)

\* record_error entered without the exclusive borrow
borrow_mut_unchecked(t) == TRUE

\* record_error(&mut self): the exclusive borrow is free for caller t
borrow_mut(t) == lock = <<>>

\* get_stats entered while another caller holds the exclusive borrow
borrow_unchecked(t) == TRUE

\* get_stats(&self): no exclusive borrow is held against caller t
borrow(t) == lock = <<>>

\* calls begun so far
Begun == Len(recorded) + Len(snapshots) + Cardinality({t \in Callers : pc[t] # "idle"})

BeginRecord(t, c, s) ==
    /\ pc[t] = "idle"
    /\ Begun < MaxSharedCalls
    /\ borrow_mut(t)
    /\ lock' = <<t>>
    /\ arg' = [arg EXCEPT ![t] = <<new(MsgTest, c, s, clock)>>]
    /\ pc' = [pc EXCEPT ![t] = "l211_load"]
    /\ UNCHANGED <<ValueVars, MetricsVars, tmp, partial>>

\* self.total_errors += 1
L211Load(t) ==
    /\ pc[t] = "l211_load"
    /\ tmp' = [tmp EXCEPT ![t] = metrics.total_errors]
    /\ pc' = [pc EXCEPT ![t] = "l211_store"]
    /\ UNCHANGED <<ValueVars, MetricsVars, lock, arg, partial>>

L211Store(t) ==
    /\ pc[t] = "l211_store"
    /\ metrics' = [metrics EXCEPT !.total_errors = Increment(tmp[t])]
    /\ pc' = [pc EXCEPT ![t] = "l212_load"]
    /\ UNCHANGED <<ValueVars, heap, recorded, snapshots, taken, lock, arg, tmp, partial>>

\* *self.errors_by_category.entry(error.category.clone()).or_insert(0) += 1
L212Load(t) ==
    /\ pc[t] = "l212_load"
    /\ LET a       == metrics.errors_by_category
           present == or_insert(heap[a], arg[t][1].category)
       IN  /\ heap' = [heap EXCEPT ![a] = present]
           /\ tmp' = [tmp EXCEPT ![t] = present[arg[t][1].category]]
    /\ pc' = [pc EXCEPT ![t] = "l212_store"]
    /\ UNCHANGED <<ValueVars, metrics, recorded, snapshots, taken, lock, arg, partial>>

L212Store(t) ==
    /\ pc[t] = "l212_store"
    /\ LET a == metrics.errors_by_category
       IN  heap' = [heap EXCEPT ![a] =
                       insert(@, arg[t][1].category, Increment(tmp[t]))]
    /\ pc' = [pc EXCEPT ![t] = "l213_load"]
    /\ UNCHANGED <<ValueVars, metrics, recorded, snapshots, taken, lock, arg, tmp, partial>>

\* *self.errors_by_severity.entry(error.severity.clone()).or_insert(0) += 1
L213Load(t) ==
    /\ pc[t] = "l213_load"
    /\ LET a       == metrics.errors_by_severity
           present == or_insert(heap[a], arg[t][1].severity)
       IN  /\ heap' = [heap EXCEPT ![a] = present]
           /\ tmp' = [tmp EXCEPT ![t] = present[arg[t][1].severity]]
    /\ pc' = [pc EXCEPT ![t] = "l213_store"]
    /\ UNCHANGED <<ValueVars, metrics, recorded, snapshots, taken, lock, arg, partial>>

\* the store of line 213, and the return: the borrow ends
L213Store(t) ==
    /\ pc[t] = "l213_store"
    /\ LET a == metrics.errors_by_severity
       IN  heap' = [heap EXCEPT ![a] =
                       insert(@, arg[t][1].severity, Increment(tmp[t]))]
    /\ recorded' = Append(recorded, <<arg[t][1].category, arg[t][1].severity>>)
    /\ lock' = IF lock = <<t>> THEN <<>> ELSE lock
    /\ arg' = [arg EXCEPT ![t] = <<>>]
    /\ tmp' = [tmp EXCEPT ![t] = 0]
    /\ pc' = [pc EXCEPT ![t] = "idle"]
    /\ UNCHANGED <<ValueVars, metrics, snapshots, taken, partial>>

BeginStats(t) ==
    /\ pc[t] = "idle"
    /\ Begun < MaxSharedCalls
    /\ borrow(t)
    /\ lock' = <<t>>
    /\ pc' = [pc EXCEPT ![t] = "l218"]
    /\ UNCHANGED <<ValueVars, MetricsVars, arg, tmp, partial>>

\* total_errors: self.total_errors
L218(t) ==
    /\ pc[t] = "l218"
    /\ partial' = [partial EXCEPT ![t] = <<metrics.total_errors>>]
    /\ pc' = [pc EXCEPT ![t] = "l219"]
    /\ UNCHANGED <<ValueVars, MetricsVars, lock, arg, tmp>>

\* errors_by_category: self.errors_by_category.clone()
L219(t) ==
    /\ pc[t] = "l219"
    /\ partial' = [partial EXCEPT ![t] =
                      Append(@, CloneAddr(heap, metrics.errors_by_category))]
    /\ heap' = CloneHeap(heap, metrics.errors_by_category)
    /\ pc' = [pc EXCEPT ![t] = "l220"]
    /\ UNCHANGED <<ValueVars, metrics, recorded, snapshots, taken, lock, arg, tmp>>

\* errors_by_severity: self.errors_by_severity.clone(), and the return
L220(t) ==
    /\ pc[t] = "l220"
    /\ snapshots' = Append(snapshots,
          [total_errors       |-> partial[t][1],
           errors_by_category |-> partial[t][2],
           errors_by_severity |-> CloneAddr(heap, metrics.errors_by_severity)])
    /\ heap' = CloneHeap(heap, metrics.errors_by_severity)
    /\ partial' = [partial EXCEPT ![t] = <<>>]
    /\ lock' = IF lock = <<t>> THEN <<>> ELSE lock
    /\ pc' = [pc EXCEPT ![t] = "idle"]
    /\ UNCHANGED <<ValueVars, metrics, recorded, taken, arg, tmp>>

NextShared ==
    \E t \in Callers :
        \/ \E k \in SharedErrorKinds : BeginRecord(t, k[1], k[2])
        \/ L211Load(t)
        \/ L211Store(t)
        \/ L212Load(t)
        \/ L212Store(t)
        \/ L213Load(t)
        \/ L213Store(t)
        \/ BeginStats(t)
        \/ L218(t)
        \/ L219(t)
        \/ L220(t)

SpecShared == Init /\ [][NextShared]_vars

-----------------------------------------------------------------------------
(* What the claims speak of, stated without the code's operators *)

\* pat occurs in s at the 1-based position i
Occurs(s, pat, i) ==
    /\ i >= 1
    /\ i + Len(pat) - 1 <= Len(s)
    /\ \A j \in 1..Len(pat) : s[i + j - 1] = pat[j]

\* pat is a substring of s
HasSub(s, pat) == \E i \in 1..(Len(s) - Len(pat) + 1) : Occurs(s, pat, i)

Min(S) == CHOOSE x \in S : \A y \in S : x <= y

Max(S) == CHOOSE x \in S : \A y \in S : x >= y

Markers == {password_eq, api_key_eq, secret_eq, token_eq}

\* whitespace, comma, semicolon
ValueDelimiters == {" ", "\t", "\n", "\r", ",", ";"}

\* the position of the first delimiter of s at or after position from, or
\* Len(s) + 1 when there is none
ValueEnd(s, from) ==
    LET D == {j \in from..Len(s) : s[j] \in ValueDelimiters}
    IN  IF D = {} THEN Len(s) + 1 ELSE Min(D)

\* the secret value after the occurrence of marker at position i of s
SecretAt(s, marker, i) ==
    SubSeq(s, i + Len(marker), ValueEnd(s, i + Len(marker)) - 1)

\* s with the value after the first occurrence of marker replaced by ***
Redacted(s, marker) ==
    IF ~HasSub(s, marker) THEN s
    ELSE LET i == Min({j \in 1..Len(s) : Occurs(s, marker, j)})
             b == i + Len(marker)
         IN  SubSeq(s, 1, b - 1) \o Stars \o SubSeq(s, ValueEnd(s, b), Len(s))

\* the specified algorithm: the markers in the order password=, api_key=,
\* secret=, token=
SpecifiedSanitized(m) ==
    Redacted(Redacted(Redacted(Redacted(m, password_eq), api_key_eq),
                      secret_eq), token_eq)

-----------------------------------------------------------------------------
(* The claims *)

\* the secret occurs in s nowhere but right after an occurrence of the marker
OnlyAfterMarker(s, marker, secret) ==
    \A j \in 1..Len(s) :
        Occurs(s, secret, j) => Occurs(s, marker, j - Len(marker))

\* C1: for every message and every marker occurring in it, the string
\* sanitized_message() returns never contains the secret value that followed
\* that marker in the original message.  Stated for the secrets that leave
\* no doubt: non-empty ones that occur in the message only as the value of
\* that marker.  The code violates it.
C1_SecretNeverInOutput ==
    sanitized # <<>> =>
        \A marker \in Markers : \A i \in 1..Len(input) :
            Occurs(input, marker, i) =>
                LET secret == SecretAt(input, marker, i)
                IN  (secret # <<>> /\ OnlyAfterMarker(input, marker, secret))
                        => ~HasSub(sanitized[1], secret)

\* C2: sanitized_message() equals the result of the specified algorithm:
\* for each marker in order, the value after its first occurrence, up to the
\* first whitespace, comma or semicolon or the end, becomes ***, and every
\* other character is kept; a message with no marker is returned unchanged
\* and the documented scenario gives "Database connection failed: password=***".
C2_SanitizedIsSpecified ==
    sanitized # <<>> =>
        /\ sanitized[1] = SpecifiedSanitized(err[1].message)
        /\ (\A marker \in Markers : ~HasSub(err[1].message, marker))
               => sanitized[1] = err[1].message
        /\ err[1].message = MsgDbConn => sanitized[1] = MsgDbConnSan
        /\ err[1].message = MsgDbErr => sanitized[1] = MsgDbErrSan
        /\ err[1].message = MsgApi => sanitized[1] = MsgApiSan
        /\ err[1].message = MsgToken => sanitized[1] = MsgTokenSan

\* C2's case: two markers, a value ended by a comma and a value ended by the
\* end of the string, both redacted
C2_Witness ==
    /\ sanitized # <<>>
    /\ input = password_eq \o <<"x">> \o <<",">> \o token_eq
    /\ sanitized[1] = password_eq \o Stars \o <<",">> \o token_eq \o Stars

\* an upper-case letter with its lower-case letter
CasePairs == {<<UpperCase[i], LowerCase[i]>> : i \in 1..Len(UpperCase)}

\* c and the lower-case letter d are the same letter, whatever the case of c
SameLetter(c, d) == c = d \/ <<c, d>> \in CasePairs

\* the keyword kw (in lower case) is a substring of m in some letter case
HasKeyword(m, kw) ==
    \E i \in 1..(Len(m) - Len(kw) + 1) :
        \A j \in 1..Len(kw) : SameLetter(m[i + j - 1], kw[j])

HasAny(m, kws) == \E kw \in kws : HasKeyword(m, kw)

\* the specified priority order of the categories
CategoryOrder ==
    << <<{KwNetwork, KwConnection, KwTimeout}, "Network">>,
       <<{KwInvalid, KwValidation, KwRequired}, "Validation">>,
       <<{KwFile, KwNotFound}, "FileSystem">>,
       <<{KwDatabase}, "Database">> >>

\* the specified priority order of the severities
SeverityOrder ==
    << <<{KwCrash, KwCritical}, "Critical">>,
       <<{KwDeprecated, KwWarning}, "Warning">>,
       <<{KwCompleted, KwMinor}, "Info">> >>

\* first match wins in the order, else the default
FirstMatch(m, order, default) ==
    LET hits == {k \in 1..Len(order) : HasAny(m, order[k][1])}
    IN  IF hits = {} THEN default ELSE order[Min(hits)][2]

\* C3: from_message assigns the category by case-insensitive substring match,
\* first match winning in the order Network, Validation, FileSystem, Database,
\* else Unknown; every message with "network", "connection" or "timeout" in
\* any letter case is Network, also when a keyword of a later category occurs
\* ("Database connection failed" is Network).
C3_CategoryByPriority ==
    err # <<>> =>
        /\ err[1].category = FirstMatch(err[1].message, CategoryOrder, "Unknown")
        /\ HasAny(err[1].message, {KwNetwork, KwConnection, KwTimeout})
               => err[1].category = "Network"
        /\ err[1].message = MsgDbConn => err[1].category = "Network"
        /\ err[1].message = MsgNetConn => err[1].category = "Network"
        /\ err[1].message = MsgInvalid => err[1].category = "Validation"
        /\ err[1].message = MsgFileNotFound => err[1].category = "FileSystem"

\* C3's case: "connection" not in lower case together with "database"
C3_Witness ==
    /\ err # <<>>
    /\ HasKeyword(err[1].message, KwDatabase)
    /\ HasKeyword(err[1].message, KwConnection)
    /\ ~HasSub(err[1].message, KwConnection)
    /\ err[1].category = "Network"

\* C4: from_message assigns the severity by case-insensitive substring match,
\* first match winning in the order Critical (crash, critical), Warning
\* (deprecated, warning), Info (completed, minor), else Error; a message with
\* none of the six keywords is Error, and no message yields Debug.
C4_SeverityByPriority ==
    err # <<>> =>
        /\ err[1].severity = FirstMatch(err[1].message, SeverityOrder, "Error")
        /\ HasAny(err[1].message, {KwCrash, KwCritical})
               => err[1].severity = "Critical"
        /\ ~HasAny(err[1].message, {KwCrash, KwCritical, KwDeprecated, KwWarning,
                                    KwCompleted, KwMinor})
               => err[1].severity = "Error"
        /\ err[1].severity # "Debug"
        /\ err[1].message = MsgCrash => err[1].severity = "Critical"
        /\ err[1].message = MsgDeprecated => err[1].severity = "Warning"
        /\ err[1].message = MsgMinor => err[1].severity = "Info"
        /\ err[1].message = MsgInvalid => err[1].severity = "Error"

\* C4's case: "crash" in upper case together with a Warning keyword
C4_Witness ==
    /\ err # <<>>
    /\ HasKeyword(err[1].message, KwCrash)
    /\ ~HasSub(err[1].message, KwCrash)
    /\ HasKeyword(err[1].message, KwWarning)
    /\ err[1].severity = "Critical"

\* the number of entries of seq whose pos-th component is x
CountOf(seq, pos, x) == Cardinality({i \in 1..Len(seq) : seq[i][pos] = x})

\* the sum of the counts of a map
RECURSIVE SumOf(_)
SumOf(map) ==
    IF DOMAIN map = {} THEN 0
    ELSE LET k == CHOOSE x \in DOMAIN map : TRUE
         IN  map[k] + SumOf([x \in DOMAIN map \ {k} |-> map[x]])

\* the map counts the pos-th components of the recorded errors, and has no
\* entry for one never recorded
CountsRecorded(map, pos) ==
    /\ DOMAIN map = {recorded[i][pos] : i \in 1..Len(recorded)}
    /\ \A k \in DOMAIN map : map[k] = CountOf(recorded, pos, k)

\* Network/Error, Network/Warning, Validation/Error
Scenario ==
    << <<"Network", "Error">>, <<"Network", "Warning">>, <<"Validation", "Error">> >>

\* C5: after any sequence of record_error calls on a fresh ErrorMetrics,
\* total_errors is the number of calls, each per-category and per-severity
\* count is the number of recorded errors of that category or severity, and
\* what was never recorded has no entry; the documented scenario gives total
\* 3, {Network: 2, Validation: 1}, {Error: 2, Warning: 1}.
C5_CountsAreExact ==
    LET now == Counters(metrics, heap) IN
    /\ now.total_errors = Len(recorded)
    /\ CountsRecorded(now.errors_by_category, 1)
    /\ CountsRecorded(now.errors_by_severity, 2)
    /\ recorded = Scenario =>
          /\ now.total_errors = 3
          /\ now.errors_by_category = [k \in {"Network", "Validation"} |->
                                          IF k = "Network" THEN 2 ELSE 1]
          /\ now.errors_by_severity = [k \in {"Error", "Warning"} |->
                                          IF k = "Error" THEN 2 ELSE 1]

\* C5's case: the documented scenario has been recorded
C5_Witness ==
    /\ recorded = Scenario
    /\ metrics.total_errors = 3

\* C6: a snapshot returned by get_stats() is a copy: whatever record_error
\* calls follow, its three counters stay what the aggregator's were when
\* get_stats was called.
C6_SnapshotIsACopy ==
    /\ Len(taken) = Len(snapshots)
    /\ \A i \in 1..Len(snapshots) : Counters(snapshots[i], heap) = taken[i]

\* C6's case: an error of a category already counted in a snapshot was
\* recorded after the snapshot was taken
C6_Witness ==
    \E i \in 1..Len(snapshots) :
        /\ "Network" \in DOMAIN taken[i].errors_by_category
        /\ taken[i].errors_by_category["Network"]
              < heap[metrics.errors_by_category]["Network"]
        /\ taken[i].total_errors < metrics.total_errors

\* no record_error call is in progress
NoRecordInProgress ==
    \A t \in Callers : pc[t] \in {"idle", "l218", "l219", "l220"}

\* C7: with the record_error calls of concurrent callers serialized, no
\* update is lost: once K calls have completed (and none is in progress),
\* total_errors and the sums of the per-category and of the per-severity
\* counts are each K.
C7_NoLostUpdate ==
    NoRecordInProgress =>
        LET now == Counters(metrics, heap) IN
        /\ now.total_errors = Len(recorded)
        /\ SumOf(now.errors_by_category) = Len(recorded)
        /\ SumOf(now.errors_by_severity) = Len(recorded)

\* C7's case: three calls of the same category have completed
C7_Witness ==
    /\ NoRecordInProgress
    /\ Len(recorded) = 3
    /\ metrics.total_errors = 3
    /\ \A i \in 1..3 : recorded[i][1] = "Network"

\* C8: every snapshot get_stats() returns is consistent: its total_errors
\* is the sum of its per-category counts and the sum of its per-severity
\* counts.
C8_SnapshotIsConsistent ==
    \A i \in 1..Len(snapshots) :
        LET s == Counters(snapshots[i], heap) IN
        /\ s.total_errors = SumOf(s.errors_by_category)
        /\ s.total_errors = SumOf(s.errors_by_severity)

\* C8's case: a snapshot returned after one record_error call, while a
\* caller is inside the next record_error
C8_Witness ==
    /\ \E i \in 1..Len(snapshots) : snapshots[i].total_errors = 1
    /\ \E t \in Callers : pc[t] = "l212_load"

\* the context map the with_context calls so far specify: each key with the
\* value of the last call for it
ContextOf(calls) ==
    [k \in {calls[i][1] : i \in 1..Len(calls)} |->
        calls[Max({i \in 1..Len(calls) : calls[i][1] = k})][2]]

\* C9: with_context changes only the context map: context[key] = value for
\* the last call with that key, every other key keeps its value, and message,
\* category, severity and timestamp are what they were at construction,
\* after any sequence of with_context calls.
C9_OnlyContextChanges ==
    err # <<>> =>
        /\ err[1].context = ContextOf(ctxlog)
        /\ err[1].message = built[1].message
        /\ err[1].category = built[1].category
        /\ err[1].severity = built[1].severity
        /\ err[1].timestamp = built[1].timestamp

\* C9's case: a key overwritten, another key set before that, and the clock
\* past the time of construction
C9_Witness ==
    /\ err # <<>>
    /\ ctxlog = << <<"user_id", "12345">>, <<"operation", "test_operation">>,
                   <<"user_id", "test_operation">> >>
    /\ err[1].context["user_id"] = "test_operation"
    /\ clock > err[1].timestamp

\* the counts of a map never decrease and its keys stay
MapGrows(a) ==
    \A k \in DOMAIN heap[a] : k \in DOMAIN heap'[a] /\ heap'[a][k] >= heap[a][k]

\* C10: the aggregator is monotonic: in every step of every sequence of
\* record_error and get_stats calls, total_errors and each per-category and
\* per-severity count never decrease, and no key is removed.
C10_Monotonic ==
    [][/\ metrics'.total_errors >= metrics.total_errors
       /\ metrics'.errors_by_category = metrics.errors_by_category
       /\ metrics'.errors_by_severity = metrics.errors_by_severity
       /\ MapGrows(metrics.errors_by_category)
       /\ MapGrows(metrics.errors_by_severity)]_vars

\* C10's case: get_stats was called between record_error calls
C10_Witness ==
    /\ Len(snapshots) >= 1
    /\ taken[1].total_errors >= 1
    /\ metrics.total_errors > taken[1].total_errors

\* the specified lookup table of the recovery hints
SuggestionTable ==
    [c \in ErrorCategory |->
        CASE c = "Network" -> <<"Retry the operation", "Check network connectivity">>
          [] c = "Validation" -> <<"Validate input format", "Check field requirements">>
          [] OTHER -> <<>>]

\* C11: recovery_suggestions() depends only on the category, not on the
\* message, severity or context: exactly ["Retry the operation", "Check
\* network connectivity"] for Network, exactly ["Validate input format",
\* "Check field requirements"] for Validation, and the empty list for each
\* of the six other categories.
C11_SuggestionsByCategory ==
    suggestions # <<>> =>
        /\ suggestions[1] = SuggestionTable[err[1].category]
        /\ err[1].category \notin {"Network", "Validation"} => suggestions[1] = <<>>
        /\ err[1].category = "Validation" => Len(suggestions[1]) = 2

\* C11's case: the hints of a Validation value that is not of the default
\* severity and carries context
C11_Witness ==
    /\ suggestions # <<>>
    /\ err[1].category = "Validation"
    /\ err[1].severity = "Critical"
    /\ DOMAIN err[1].context # {}
    /\ suggestions[1] = <<"Validate input format", "Check field requirements">>

\* the error value was built by from_io_error
BuiltFromIoError == built # <<>> /\ built[2] = "from_io_error"

\* C12: from_io_error always yields category FileSystem and severity Error
\* with the message equal to the underlying error's text, whatever the text:
\* no keyword inference, so a text with "connection" or "crash" is still
\* FileSystem/Error.
C12_IoErrorIsFileSystemError ==
    BuiltFromIoError =>
        /\ err[1].category = "FileSystem"
        /\ err[1].severity = "Error"
        /\ err[1].message = input
        /\ built[1].context = EmptyMap

\* C12's case: an I/O error whose text from_message would classify as
\* Critical
C12_Witness ==
    /\ BuiltFromIoError
    /\ HasKeyword(err[1].message, KwCrash)
    /\ FirstMatch(err[1].message, SeverityOrder, "Error") = "Critical"
    /\ err[1].severity = "Error"
    /\ err[1].category = "FileSystem"

\* the positions at which the marker occurs in s
OccurrencesOf(s, marker) == {i \in 1..Len(s) : Occurs(s, marker, i)}

\* C13 as stated: when the same marker occurs more than once in the message,
\* the value after its first occurrence is replaced by *** and the second and
\* later occurrences of that marker, with their values, appear unchanged in
\* the output.
C13_LaterOccurrencesUnchanged ==
    sanitized # <<>> =>
        \A marker \in Markers :
            LET occ == OccurrencesOf(input, marker) IN
            Cardinality(occ) >= 2 =>
                /\ HasSub(sanitized[1], marker \o Stars)
                /\ \A j \in occ \ {Min(occ)} :
                      HasSub(sanitized[1], marker \o SecretAt(input, marker, j))

\* C13 as amended: when the same marker occurs more than once in a message
\* that holds no other marker, the value after its first occurrence is
\* replaced by *** and the text from the end of that value on is unchanged:
\* every later occurrence of the marker that lies there appears in the
\* output with its value, unredacted.
C13_FirstOccurrenceOnly ==
    sanitized # <<>> =>
        \A marker \in Markers :
            LET occ == OccurrencesOf(input, marker) IN
            (/\ Cardinality(occ) >= 2
             /\ \A other \in Markers \ {marker} : ~HasSub(input, other)) =>
                LET b     == Min(occ) + Len(marker)
                    e     == ValueEnd(input, b)
                    shift == Len(Stars) - (e - b)
                    out   == sanitized[1]
                IN  /\ Occurs(out, marker \o Stars, Min(occ))
                    /\ SubSeq(out, b + Len(Stars), Len(out))
                          = SubSeq(input, e, Len(input))
                    /\ \A j \in occ :
                          j >= e =>
                             /\ Occurs(out, marker, j + shift)
                             /\ SecretAt(out, marker, j + shift)
                                   = SecretAt(input, marker, j)

\* C13's case: the marker twice, the second time with the value x, which
\* stays in the output
C13_Witness ==
    /\ sanitized # <<>>
    /\ input = password_eq \o <<",">> \o password_eq \o <<"x">>
    /\ sanitized[1] = password_eq \o Stars \o <<",">> \o password_eq \o <<"x">>

\* C14: sanitization is idempotent: for every message m, sanitizing the
\* error value built from sanitized_message(m) returns sanitized_message(m)
\* again, also when the value after one marker holds another marker
\* ("token=secret=a secret=b").  The code violates it.
C14_Idempotent ==
    resanitized # <<>> => resanitized[1] = sanitized[1]

====
